---- MODULE Spec2Model ----
(***************************************************************************)
(* Modified Tait equation of state (burnman/modified_tait.py).             *)
(*                                                                         *)
(* The evaluator is a set of pure functions of a caller-owned parameter    *)
(* dictionary.  The state machine is a caller that holds one parameter     *)
(* dictionary and calls the functions of MTaitBase in any order; the state *)
(* records the dictionary, the last call, what it returned and what it     *)
(* printed.                                                                *)
(*                                                                         *)
(* Numbers.  A float is modelled as an exact rational n/d, or one of the   *)
(* IEEE specials nan, inf, ninf.  Each number carries the flag np: TRUE    *)
(* for a numpy.float64 (what np.exp, np.log, np.sqrt return, and what any  *)
(* arithmetic with a numpy operand returns), FALSE for a plain Python      *)
(* float.  The flag decides what a division by zero does: two Python       *)
(* floats raise ZeroDivisionError, a numpy operand gives inf or nan.  A    *)
(* raised exception is a value that every later operation passes on.       *)
(* Rounding of float64 arithmetic and signed zeros are not modelled; the   *)
(* transcendental functions return rational approximations (see Exp, Log,  *)
(* Sqrt).                                                                  *)
(***************************************************************************)
EXTENDS Integers, Sequences, FiniteSets, TLC

VARIABLES params, call, result, warned, first

vars == <<params, call, result, warned, first>>

-----------------------------------------------------------------------------
(* Float arithmetic *)

Abs(i) == IF i < 0 THEN -i ELSE i

RECURSIVE GCDNat(_, _)
GCDNat(i, j) == IF j = 0 THEN i ELSE GCDNat(j, i % j)

GCD(i, j) == GCDNat(Abs(i), Abs(j))

(* The element of a singleton set.  Only({e : v \in {x}}) is e with v      *)
(* bound to the value of x: x is evaluated once, before e, as Python       *)
(* evaluates an operand before the operation and the right-hand side of an *)
(* assignment before the statements that use the variable.                 *)
Only(S) == CHOOSE e \in S : TRUE

Special(t, np) == [t |-> t, np |-> np, n |-> 0, d |-> 1]

Raise(e) == [t |-> e, np |-> FALSE, n |-> 0, d |-> 1]

Rat(n, d, np) ==
    LET g == GCD(n, d)
        s == IF d < 0 THEN -1 ELSE 1
    IN  [t |-> "num", np |-> np, n |-> s * (n \div g), d |-> s * (d \div g)]

Py(n, d) == Rat(n, d, FALSE)

IsExc(x) == x.t \in {"ZeroDivisionError", "ValueError", "KeyError"}

IsNum(x) == x.t = "num"

IsFinite(x) == x.t = "num"

IsNonFinite(x) == x.t \in {"nan", "inf", "ninf"}

Sign(x) ==
    CASE x.t = "inf" -> 1
      [] x.t = "ninf" -> -1
      [] x.t = "num" -> (IF x.n > 0 THEN 1 ELSE IF x.n < 0 THEN -1 ELSE 0)
      [] OTHER -> 0

Signed(s, np) ==
    IF s > 0 THEN Special("inf", np)
    ELSE IF s < 0 THEN Special("ninf", np)
    ELSE Special("nan", np)

Neg(x_) ==
    Only({(
        CASE IsExc(x) -> x
          [] x.t = "num" -> [x EXCEPT !.n = -x.n]
          [] x.t = "inf" -> Special("ninf", x.np)
          [] x.t = "ninf" -> Special("inf", x.np)
          [] OTHER -> x
        ) : x \in {x_}})

Add(x_, y_) ==
    Only({(
        IF IsExc(x) THEN x
        ELSE IF IsExc(y) THEN y
        ELSE LET np == x.np \/ y.np IN
             CASE x.t = "nan" \/ y.t = "nan" -> Special("nan", np)
               [] x.t = "num" /\ y.t = "num" ->
                    LET g == GCD(x.d, y.d)
                    IN  Rat(x.n * (y.d \div g) + y.n * (x.d \div g),
                            x.d * (y.d \div g), np)
               [] x.t = "num" -> Special(y.t, np)
               [] y.t = "num" -> Special(x.t, np)
               [] x.t = y.t -> Special(x.t, np)
               [] OTHER -> Special("nan", np)
        ) : x \in {x_}, y \in {y_}})

Sub(x, y) == Add(x, Neg(y))

Mul(x_, y_) ==
    Only({(
        IF IsExc(x) THEN x
        ELSE IF IsExc(y) THEN y
        ELSE LET np == x.np \/ y.np IN
             CASE x.t = "nan" \/ y.t = "nan" -> Special("nan", np)
               [] x.t = "num" /\ y.t = "num" ->
                    LET g1 == GCD(x.n, y.d)
                        g2 == GCD(y.n, x.d)
                    IN  IF x.n = 0 \/ y.n = 0 THEN Rat(0, 1, np)
                        ELSE Rat((x.n \div g1) * (y.n \div g2),
                                 (x.d \div g2) * (y.d \div g1), np)
               [] OTHER -> Signed(Sign(x) * Sign(y), np)
        ) : x \in {x_}, y \in {y_}})

Div(x_, y_) ==
    Only({(
        IF IsExc(x) THEN x
        ELSE IF IsExc(y) THEN y
        ELSE LET np == x.np \/ y.np IN
             CASE y.t = "num" /\ y.n = 0 ->
                    IF np THEN (IF x.t = "nan" THEN Special("nan", np)
                                ELSE Signed(Sign(x), np))
                    ELSE Raise("ZeroDivisionError")
               [] x.t = "nan" \/ y.t = "nan" -> Special("nan", np)
               [] x.t = "num" /\ y.t = "num" ->
                    Mul([x EXCEPT !.np = np], Rat(y.d, y.n, np))
               [] x.t = "num" -> Rat(0, 1, np)
               [] y.t = "num" -> Signed(Sign(x) * Sign(y), np)
               [] OTHER -> Special("nan", np)
        ) : x \in {x_}, y \in {y_}})

Gt(x, y) ==
    LET z == Sub(x, y) IN Sign(z) > 0

Eq(x, y) == x.t = "num" /\ y.t = "num" /\ x.n = y.n /\ x.d = y.d

-----------------------------------------------------------------------------
(* Library functions: pow, np.sqrt, np.exp, np.log *)

(* Resolution of an inexact square root: results that are not rational are *)
(* rounded down to a multiple of 1/SqrtGrid, as float64 rounds them to a   *)
(* multiple of its unit in the last place.                                 *)
SqrtGrid == 10

RECURSIVE ISqrtB(_, _, _)
ISqrtB(m, lo, hi) ==
    IF hi - lo <= 1 THEN lo
    ELSE LET mid == (lo + hi) \div 2
         IN  IF mid * mid <= m THEN ISqrtB(m, mid, hi) ELSE ISqrtB(m, lo, mid)

ISqrt(m) == ISqrtB(m, 0, 46341)

IsSquare(m) == ISqrt(m) * ISqrt(m) = m

(* square root of a positive rational n/d: exact when n and d are squares, *)
(* else n/d is cut to about four significant digits and the root rounded   *)
(* down to the grid                                                        *)
RatSqrt(n, d, np) ==
    IF IsSquare(n) /\ IsSquare(d) THEN Rat(ISqrt(n), ISqrt(d), np)
    ELSE LET k == (d \div 20000) + 1
             n2 == n \div k
             d2 == d \div k
         IN  Rat(ISqrt((n2 \div d2) * SqrtGrid * SqrtGrid
                       + ((n2 % d2) * SqrtGrid * SqrtGrid) \div d2), SqrtGrid, np)

(* np.sqrt: always a numpy.float64 *)
Sqrt(x_) ==
    Only({(
        CASE IsExc(x) -> x
          [] x.t = "num" /\ x.n >= 0 -> RatSqrt(x.n, x.d, TRUE)
          [] x.t = "inf" -> Special("inf", TRUE)
          [] OTHER -> Special("nan", TRUE)
        ) : x \in {x_}})

RECURSIVE IPow(_, _)
IPow(x, k) == IF k = 0 THEN Rat(1, 1, x.np) ELSE Mul(x, IPow(x, k - 1))

(* q-th root of a positive rational, q a power of two up to 4 *)
Root(x, q) ==
    CASE q = 1 -> x
      [] q = 2 -> RatSqrt(x.n, x.d, x.np)
      [] q = 4 -> LET s == RatSqrt(x.n, x.d, x.np) IN RatSqrt(s.n, s.d, x.np)

(* pow(x, y): float.__pow__ of Python 2 for two Python floats, numpy's     *)
(* power when either is a numpy.float64                                    *)
Pow(x_, y_) ==
    Only({(
        IF IsExc(x) THEN x
        ELSE IF IsExc(y) THEN y
        ELSE LET np == x.np \/ y.np
                 one == Rat(1, 1, np)
             IN
             CASE y.t = "num" /\ y.n = 0 -> one
               [] x.t = "num" /\ x.n = x.d -> one
               [] x.t = "nan" \/ y.t = "nan" -> Special("nan", np)
               [] y.t \in {"inf", "ninf"} ->
                    IF x.t = "num" /\ Abs(x.n) = x.d THEN one
                    ELSE IF (x.t = "num" /\ Abs(x.n) < x.d) <=> (y.t = "inf")
                         THEN Rat(0, 1, np) ELSE Special("inf", np)
               [] x.t \in {"inf", "ninf"} ->
                    IF y.n < 0 THEN Rat(0, 1, np)
                    ELSE IF x.t = "ninf" /\ y.d = 1 /\ y.n % 2 = 1
                         THEN Special("ninf", np) ELSE Special("inf", np)
               [] x.n = 0 ->
                    IF y.n > 0 THEN Rat(0, 1, np)
                    ELSE IF np THEN Special("inf", np)
                    ELSE Raise("ZeroDivisionError")
               [] x.n < 0 /\ y.d # 1 ->
                    IF np THEN Special("nan", np) ELSE Raise("ValueError")
               [] OTHER ->
                    LET r == IPow(Root([x EXCEPT !.np = np], y.d), Abs(y.n))
                    IN  IF y.n < 0 THEN Rat(r.d, r.n, np) ELSE r
        ) : x \in {x_}, y \in {y_}})

(* np.exp at the arguments theta_E/T the model evaluates, as a rational    *)
(* within a quarter of a percent: e^1 = 2.718, e^2 = 7.389                 *)
Exp(u_) ==
    Only({(
        CASE IsExc(u) -> u
          [] u.t = "nan" -> Special("nan", TRUE)
          [] u.t = "inf" -> Special("inf", TRUE)
          [] u.t = "ninf" -> Rat(0, 1, TRUE)
          [] u.t = "num" /\ u.n = 0 -> Rat(1, 1, TRUE)
          [] u.t = "num" /\ u.n = 1 /\ u.d = 1 -> Rat(19, 7, TRUE)
          [] u.t = "num" /\ u.n = 2 /\ u.d = 1 -> Rat(37, 5, TRUE)
        ) : u \in {u_}})

(* np.log at the temperatures the model evaluates, to two significant      *)
(* digits: ln 298.15 = 5.70, ln 596.3 = 6.39                               *)
Log(x_) ==
    Only({(
        CASE IsExc(x) -> x
          [] x.t = "nan" \/ x.t = "ninf" -> Special("nan", TRUE)
          [] x.t = "inf" -> Special("inf", TRUE)
          [] x.t = "num" /\ x.n = 0 -> Special("ninf", TRUE)
          [] x.t = "num" /\ x.n < 0 -> Special("nan", TRUE)
          [] x.t = "num" /\ x.n = 5963 /\ x.d = 20 -> Rat(57, 10, TRUE)
          [] x.t = "num" /\ x.n = 5963 /\ x.d = 10 -> Rat(32, 5, TRUE)
        ) : x \in {x_}})

-----------------------------------------------------------------------------
(* burnman/modified_tait.py *)

(* T_0 = 298.15 *)
T_0 == Py(29815, 100)

F(n) == Py(n, 1)

(* params[k]: KeyError when the dictionary has no such key *)
Get(p, k) == IF k \in DOMAIN p THEN p[k] ELSE Raise("KeyError")

(* params['Cp'][i] *)
GetCp(p, i) == IF "Cp" \in DOMAIN p THEN p["Cp"][i + 1] ELSE Raise("KeyError")

(* statement sequencing: s raises, or the rest runs *)
Then(s, rest) == IF IsExc(s) THEN s ELSE rest

einst(S, n) == Div(Py(10636, 1), Add(Div(S, n), Py(644, 100)))

ksi(u) ==
    Only({Div(Mul(Pow(u, F(2)), e), Pow(Sub(e, F(1)), F(2))) : e \in {Exp(u)}})

tait_a(p) ==
    Div(Add(F(1), Get(p, "Kprime_0")),
        Add(Add(F(1), Get(p, "Kprime_0")),
            Mul(Get(p, "K_0"), Get(p, "Kdprime_0"))))

(* a variant of b that guards the division by 1 + K'_0 *)
tait_b_guarded(p) ==
    IF Eq(Add(F(1), Get(p, "Kprime_0")), F(0))
    THEN Div(Get(p, "Kprime_0"), Get(p, "K_0"))
    ELSE Sub(Div(Get(p, "Kprime_0"), Get(p, "K_0")),
             Div(Get(p, "Kdprime_0"), Add(F(1), Get(p, "Kprime_0"))))

tait_b(p) ==
    Sub(Div(Get(p, "Kprime_0"), Get(p, "K_0")),
        Div(Get(p, "Kdprime_0"), Add(F(1), Get(p, "Kprime_0"))))

tait_c(p) ==
    Div(Add(Add(F(1), Get(p, "Kprime_0")),
            Mul(Get(p, "K_0"), Get(p, "Kdprime_0"))),
        Sub(Add(Mul(Get(p, "Kprime_0"), Get(p, "Kprime_0")), Get(p, "Kprime_0")),
            Mul(Get(p, "K_0"), Get(p, "Kdprime_0"))))

(* the triple a function returns *)
Tuple(abc) == [t |-> "tuple", np |-> FALSE, n |-> 0, d |-> 1, abc |-> abc]

(* tait_constants: the triple <<a, b, c>>, or the exception raised while   *)
(* computing a, then b, then c                                             *)
tait_constants(p) ==
    Only({Then(a, Then(b, Then(c, Tuple(<<a, b, c>>)))) :
          a \in {tait_a(p)}, b \in {tait_b(p)}, c \in {tait_c(p)}})

(* a, b, c = tait_constants(params): the i-th of the triple; when the call *)
(* raised, the exception, which the caller's Then passes on                *)
Unpack(tc, i) == IF tc.t = "tuple" THEN tc.abc[i] ELSE tc

modified_tait(x, p) ==
    Only({LET a == Unpack(tc, 1)
              b == Unpack(tc, 2)
              c == Unpack(tc, 3)
          IN  Then(tc, Div(Sub(Pow(Div(Sub(Add(x, a), F(1)), a), Div(F(-1), c)),
                               F(1)), b)) :
          tc \in {tait_constants(p)}})

(* a variant of the thermal pressure that is not taken relative to T_0 *)
rel_thermal_pressure_absolute(T, p) ==
    Only({LET u == Div(ein, T)
              u_0 == Div(ein, T_0)
          IN  Mul(Div(Mul(Mul(Get(p, "a_0"), Get(p, "K_0")), ein), ksi(u_0)),
                  Div(F(1), Sub(Exp(u), F(1)))) :
          ein \in {einst(Get(p, "S_0"), Get(p, "n"))}})

rel_thermal_pressure(T, p) ==
    Only({LET u == Div(ein, T)
              u_0 == Div(ein, T_0)
          IN  Mul(Div(Mul(Mul(Get(p, "a_0"), Get(p, "K_0")), ein), ksi(u_0)),
                  Sub(Div(F(1), Sub(Exp(u), F(1))),
                      Div(F(1), Sub(Exp(u_0), F(1))))) :
          ein \in {einst(Get(p, "S_0"), Get(p, "n"))}})

grueneisen_parameter(pressure, temperature, volume_, p) == F(0)

volume(pressure, temperature, p) ==
    Only({LET a == Unpack(tc, 1)
              b == Unpack(tc, 2)
              c == Unpack(tc, 3)
              x == Sub(F(1), Mul(a, Sub(F(1),
                       Pow(Add(F(1), Mul(b, Sub(pressure, Pth))), Mul(F(-1), c)))))
          IN  Then(tc, Then(Pth, Mul(x, Get(p, "V_0")))) :
          tc \in {tait_constants(p)},
          Pth \in {rel_thermal_pressure(temperature, p)}})

isothermal_bulk_modulus(pressure, temperature, volume_, p) ==
    Only({LET psubpth == Sub(pressure, Pth)
              a == Unpack(tc, 1)
              b == Unpack(tc, 2)
              c == Unpack(tc, 3)
          IN  Then(tc, Then(Pth,
                   Mul(Mul(Get(p, "K_0"), Add(F(1), Mul(b, psubpth))),
                       Add(a, Mul(Sub(F(1), a),
                                  Pow(Add(F(1), Mul(b, psubpth)), c)))))) :
          tc \in {tait_constants(p)},
          Pth \in {rel_thermal_pressure(temperature, p)}})

shear_modulus(pressure, temperature, volume_, p) == F(0)

heat_capacity_v(pressure, temperature, volume_, p) == F(0)

(* a variant of the expansivity with the pressure left out of its factor,  *)
(* as in the formula quoted in the docstring                               *)
thermal_expansivity_no_pressure(pressure, temperature, volume_, p) ==
    Only({LET a == Unpack(tc, 1)
              b == Unpack(tc, 2)
              c == Unpack(tc, 3)
          IN  Then(tc, Then(Pth,
                   Div(Mul(Div(Mul(Get(p, "a_0"), ksi(Div(ein, temperature))),
                               ksi(Div(ein, T_0))),
                           F(1)),
                       Mul(Sub(F(1), Mul(b, Pth)),
                           Add(a, Mul(Sub(F(1), a),
                                      Pow(Sub(F(1), Mul(b, Pth)), c))))))) :
          tc \in {tait_constants(p)},
          Pth \in {rel_thermal_pressure(temperature, p)},
          ein \in {einst(Get(p, "S_0"), Get(p, "n"))}})

thermal_expansivity(pressure, temperature, volume_, p) ==
    Only({LET psubpth == Sub(pressure, Pth)
              a == Unpack(tc, 1)
              b == Unpack(tc, 2)
              c == Unpack(tc, 3)
          IN  Then(tc, Then(Pth,
                   Div(Mul(Div(Mul(Get(p, "a_0"), ksi(Div(ein, temperature))),
                               ksi(Div(ein, T_0))),
                           F(1)),
                       Mul(Add(F(1), Mul(b, psubpth)),
                           Add(a, Mul(Sub(F(1), a),
                                      Pow(Add(F(1), Mul(b, psubpth)), c))))))) :
          tc \in {tait_constants(p)},
          Pth \in {rel_thermal_pressure(temperature, p)},
          ein \in {einst(Get(p, "S_0"), Get(p, "n"))}})

heat_capacity_p0(temperature, p) ==
    Add(Add(Add(GetCp(p, 0), Mul(GetCp(p, 1), temperature)),
            Mul(GetCp(p, 2), Pow(temperature, F(-2)))),
        Mul(GetCp(p, 3), Pow(temperature, Py(-1, 2))))

heat_capacity_p(pressure, temperature, volume_, p) == F(0)

(* a variant with the commented-out body of lines 141-145 in place *)
adiabatic_bulk_modulus_computed(pressure, temperature, volume_, p) ==
    Only({Mul(K_T, Add(F(1), Mul(Mul(gr, alpha), temperature))) :
          K_T \in {isothermal_bulk_modulus(pressure, temperature, volume_, p)},
          alpha \in {thermal_expansivity(pressure, temperature, volume_, p)},
          gr \in {grueneisen_parameter(pressure, temperature, volume_, p)}})

adiabatic_bulk_modulus(pressure, temperature, volume_, p) == F(0)

intCpdT(temperature, p) ==
    Sub(Add(Sub(Add(Mul(GetCp(p, 0), temperature),
                    Mul(Mul(Py(1, 2), GetCp(p, 1)), Pow(temperature, F(2)))),
                Div(GetCp(p, 2), temperature)),
            Mul(Mul(F(2), GetCp(p, 3)), Sqrt(temperature))),
        Add(Sub(Add(Mul(GetCp(p, 0), T_0),
                    Mul(Mul(Mul(Py(1, 2), GetCp(p, 1)), T_0), T_0)),
                Div(GetCp(p, 2), T_0)),
            Mul(Mul(F(2), GetCp(p, 3)), Sqrt(T_0))))

intCpoverTdT(temperature, p) ==
    Sub(Sub(Sub(Add(Mul(GetCp(p, 0), Log(temperature)),
                    Mul(GetCp(p, 1), temperature)),
                Div(Mul(Py(1, 2), GetCp(p, 2)), Pow(temperature, F(2)))),
            Div(Mul(F(2), GetCp(p, 3)), Sqrt(temperature))),
        Sub(Sub(Add(Mul(GetCp(p, 0), Log(T_0)),
                    Mul(GetCp(p, 1), T_0)),
                Div(Mul(Py(1, 2), GetCp(p, 2)), Mul(T_0, T_0))),
            Div(Mul(F(2), GetCp(p, 3)), Sqrt(T_0))))

(* EQ 13, line 163 *)
intVdP(pressure, a, b, c, Pth, V_0) ==
    Mul(Mul(pressure, V_0),
        Add(Sub(F(1), a),
            Div(Mul(a, Sub(Pow(Sub(F(1), Mul(b, Pth)), Sub(F(1), c)),
                           Pow(Add(F(1), Mul(b, Sub(pressure, Pth))),
                               Sub(F(1), c)))),
                Mul(Mul(b, Sub(c, F(1))), pressure))))

landau_Tcstar(pressure, p) ==
    Add(Get(p, "landau_Tc"),
        Mul(Div(Get(p, "landau_Vmax"), Get(p, "landau_Smax")), pressure))

landau_Q_0(p) ==
    Pow(Div(Sub(Get(p, "landau_Tc"), T_0), Get(p, "landau_Tc")), Py(1, 4))

(* a variant of the state of ordering that is capped at full order *)
landau_Q_clamped(pressure, temperature, p) ==
    Only({Then(Tcstar,
               IF Gt(Sub(Tcstar, temperature), Get(p, "landau_Tc")) THEN F(1)
               ELSE IF Gt(Sub(Tcstar, temperature), F(0))
               THEN Pow(Div(Sub(Tcstar, temperature), Get(p, "landau_Tc")),
                        Py(1, 4))
               ELSE F(0)) :
          Tcstar \in {landau_Tcstar(pressure, p)}})

(* the state of ordering, lines 176-179 *)
landau_Q(pressure, temperature, p) ==
    Only({Then(Tcstar,
               IF Gt(Sub(Tcstar, temperature), F(0))
               THEN Pow(Div(Sub(Tcstar, temperature), Get(p, "landau_Tc")),
                        Py(1, 4))
               ELSE F(0)) :
          Tcstar \in {landau_Tcstar(pressure, p)}})

(* line 187, with Vt = 1. *)
landau_Gdisord(pressure, temperature, p) ==
    Only({LET Tc == Get(p, "landau_Tc")
              Smax == Get(p, "landau_Smax")
              Vt == F(1)
          IN  Then(Tcstar, Then(Q_0, Then(Q,
              Add(Sub(Sub(Mul(Mul(Tc, Smax),
                              Sub(Pow(Q_0, F(2)), Div(Pow(Q_0, F(6)), F(3)))),
                          Mul(Smax, Sub(Mul(Tcstar, Pow(Q, F(2))),
                                        Div(Mul(Tc, Pow(Q, F(6))), F(3))))),
                      Mul(temperature,
                          Mul(Smax, Sub(Pow(Q_0, F(2)), Pow(Q, F(2)))))),
                  Mul(pressure,
                      Mul(Mul(Get(p, "landau_Vmax"), Pow(Q_0, F(2))), Vt)))))) :
          Tcstar \in {landau_Tcstar(pressure, p)},
          Q_0 \in {landau_Q_0(p)},
          Q \in {landau_Q(pressure, temperature, p)}})

(* a variant in which the Bragg-Williams branch contributes its enthalpy *)
Gdisord_bw_enthalpy(pressure, temperature, p) ==
    IF "landau_Tc" \in DOMAIN p THEN landau_Gdisord(pressure, temperature, p)
    ELSE IF "BW_deltaH" \in DOMAIN p THEN Get(p, "BW_deltaH")
    ELSE F(0)

(* the order-disorder term, lines 166-196 *)
Gdisord(pressure, temperature, p) ==
    IF "landau_Tc" \in DOMAIN p THEN landau_Gdisord(pressure, temperature, p)
    ELSE IF "BW_deltaH" \in DOMAIN p THEN F(0)
    ELSE F(0)

(* line 200, given the terms computed before it *)
gibbs_return(temperature, p, iCpdT, iCpoverTdT, iVdP, G) ==
    Add(Add(Sub(Add(Get(p, "H_0"), iCpdT),
                Mul(temperature, Add(Get(p, "S_0"), iCpoverTdT))),
            iVdP),
        G)

(* gibbs: what it returns (or raises) and whether it prints the warning   *)
(* of line 194, which it does when no earlier statement has raised        *)
gibbs_run(pressure, temperature, p) ==
    Only({Only({LET before == Then(tc, Then(Pth, Then(iCpdT,
                                   Then(iCpoverTdT, iVdP))))
                IN  [ret |-> Then(before, Then(G,
                                 gibbs_return(temperature, p, iCpdT, iCpoverTdT,
                                              iVdP, G))),
                     printed |-> /\ ~IsExc(before)
                                 /\ "landau_Tc" \notin DOMAIN p
                                 /\ "BW_deltaH" \in DOMAIN p] :
                iVdP \in {intVdP(pressure, Unpack(tc, 1), Unpack(tc, 2),
                                 Unpack(tc, 3), Pth, Get(p, "V_0"))}}) :
          tc \in {tait_constants(p)},
          Pth \in {rel_thermal_pressure(temperature, p)},
          iCpdT \in {intCpdT(temperature, p)},
          iCpoverTdT \in {intCpoverTdT(temperature, p)},
          G \in {Gdisord(pressure, temperature, p)}})

gibbs(pressure, temperature, p) == gibbs_run(pressure, temperature, p).ret

pressure_(temperature, volume_, p) ==
    Only({Then(x, Add(modified_tait(x, p), rel_thermal_pressure(temperature, p))) :
          x \in {Div(Get(p, "V_0"), volume_)}})

-----------------------------------------------------------------------------
(* The caller: parameter dictionaries and state points *)

(* A parameter dictionary with Python-float (np = FALSE) or numpy-float    *)
(* (np = TRUE) fields; K_0, Kprime_0, Kdprime_0 are pairs <<numerator,     *)
(* denominator>>.  S_0/n puts the Einstein temperature at 2*T_0, and a_0   *)
(* makes a_0*theta_E/ksi(u_0) = 12/41, so that the thermal pressure at     *)
(* 2*T_0 is K_0/8.                                                         *)
Record(K_0, Kprime_0, Kdprime_0, Cp, np) ==
    [V_0 |-> Rat(2, 1, np), K_0 |-> Rat(K_0[1], K_0[2], np),
     Kprime_0 |-> Rat(Kprime_0[1], Kprime_0[2], np),
     Kdprime_0 |-> Rat(Kdprime_0[1], Kdprime_0[2], np),
     S_0 |-> Rat(10, 1, np), n |-> Rat(1490750, 1698957, np),
     H_0 |-> Rat(-1000, 1, np), a_0 |-> Rat(2775, 7823456, np),
     Cp |-> [i \in 1..4 |-> Rat(Cp[i], 1, np)]]

(* landau_Tc = 16/15 * T_0, so that Q_0 = 1/2; landau_Vmax/landau_Smax = T_0 *)
Landau(np) ==
    [landau_Tc |-> Rat(23852, 75, np), landau_Smax |-> Rat(1, 1, np),
     landau_Vmax |-> Rat(5963, 20, np)]

BW(np) == [BW_deltaH |-> Rat(1, 1, np)]

(* well-formed dictionaries: (a, b, c) = (1/2, 1, 2) and (1/2, 1, 1/2) *)
ValidRecords ==
    UNION {{Record(<<1, 1>>, <<2, 1>>, <<3, 1>>, <<1, 0, 0, -2623>>, np),
            Record(<<4, 1>>, <<5, 1>>, <<3, 2>>, <<2, 1, -5963, 0>>, np),
            Record(<<1, 1>>, <<2, 1>>, <<3, 1>>, <<1, 0, 0, -2623>>, np) @@ Landau(np),
            Record(<<1, 1>>, <<2, 1>>, <<3, 1>>, <<1, 0, 0, -2623>>, np) @@ BW(np),
            Record(<<1, 1>>, <<2, 1>>, <<3, 1>>, <<1, 0, 0, -2623>>, np)
                @@ Landau(np) @@ BW(np)}
           : np \in BOOLEAN}

(* Kprime_0 = -1, and a dictionary with no fields *)
DegenerateRecords ==
    UNION {{Record(<<1, 1>>, <<-1, 1>>, <<3, 1>>, <<1, 0, 0, 0>>, np),
            Record(<<1, 1>>, <<-1, 1>>, <<0, 1>>, <<1, 0, 0, 0>>, np)}
           : np \in BOOLEAN}
    \cup {<<>>}

Records == ValidRecords \cup DegenerateRecords

(* (pressure, temperature) samples; at each the Landau order parameter of  *)
(* the records above is rational: Q = 1/2, 1, 2 at T_0 and 0, 0, 1/2 at   *)
(* 2*T_0                                                                   *)
StatePoints ==
    {<<F(0), T_0>>, <<F(1), T_0>>, <<F(17), T_0>>,
     <<F(0), Mul(F(2), T_0)>>, <<Py(1, 8), Mul(F(2), T_0)>>,
     <<F(1), Mul(F(2), T_0)>>}

(* the (pressure, temperature, volume) arguments given to the functions    *)
(* that ignore their arguments                                             *)
StubArguments == {<<F(0), T_0, F(2)>>, <<F(1), Mul(F(2), T_0), F(1)>>}

Temperatures == {pt[2] : pt \in StatePoints}

Volumes == {F(1), F(2)}

Ratios == {F(1), Py(8, 5)}

None == Special("none", FALSE)

(* the caller's note of its first call (the dictionary as it was before    *)
(* the call, the call, what it returned and printed, and whether the same  *)
(* call has been made again), for comparing later calls with it; a caller  *)
(* that keeps no note has mode "off"                                       *)
NoCall == [mode |-> "off"]

NoCallYet == [mode |-> "empty"]

Call(op, P, T, V) == [op |-> op, P |-> P, T |-> T, V |-> V]

(* a variant of a call that stores what it returned in the dictionary *)
Do_caching(c, r, w) ==
    \E ret \in {r} :
        /\ call' = c
        /\ result' = ret
        /\ warned' = w
        /\ first' = IF first.mode = "empty"
                    THEN [mode |-> "set", params |-> params, call |-> c,
                          result |-> ret, warned |-> w, again |-> FALSE]
                    ELSE IF first.mode = "set" /\ first.call = c
                    THEN [first EXCEPT !.again = TRUE]
                    ELSE first
        /\ params' = IF c.op = "volume" /\ IsNum(ret) /\ "V_0" \in DOMAIN params
                     THEN [params EXCEPT !["V_0"] = ret]
                     ELSE params

(* one call by the caller: the dictionary is passed by reference and none  *)
(* of the functions assigns to it                                          *)
Do(c, r, w) ==
    \E ret \in {r} :
        /\ call' = c
        /\ result' = ret
        /\ warned' = w
        /\ first' = IF first.mode = "empty"
                    THEN [mode |-> "set", params |-> params, call |-> c,
                          result |-> ret, warned |-> w, again |-> FALSE]
                    ELSE IF first.mode = "set" /\ first.call = c
                    THEN [first EXCEPT !.again = TRUE]
                    ELSE first
        /\ UNCHANGED params

TaitConstants ==
    Do(Call("tait_constants", None, None, None), tait_constants(params), FALSE)

ModifiedTait(x) ==
    Do(Call("modified_tait", None, None, x), modified_tait(x, params), FALSE)

Volume(P, T) ==
    Do(Call("volume", P, T, None), volume(P, T, params), FALSE)

IsothermalBulkModulus(P, T, V) ==
    Do(Call("isothermal_bulk_modulus", P, T, V),
       isothermal_bulk_modulus(P, T, V, params), FALSE)

ThermalExpansivity(P, T, V) ==
    Do(Call("thermal_expansivity", P, T, V),
       thermal_expansivity(P, T, V, params), FALSE)

HeatCapacityP0(T) ==
    Do(Call("heat_capacity_p0", None, T, None), heat_capacity_p0(T, params), FALSE)

Gibbs(P, T) ==
    \E r \in {gibbs_run(P, T, params)} :
        Do(Call("gibbs", P, T, None), r.ret, r.printed)

Pressure(T, V) ==
    Do(Call("pressure", None, T, V), pressure_(T, V, params), FALSE)

GrueneisenParameter(P, T, V) ==
    Do(Call("grueneisen_parameter", P, T, V),
       grueneisen_parameter(P, T, V, params), FALSE)

ShearModulus(P, T, V) ==
    Do(Call("shear_modulus", P, T, V), shear_modulus(P, T, V, params), FALSE)

HeatCapacityV(P, T, V) ==
    Do(Call("heat_capacity_v", P, T, V), heat_capacity_v(P, T, V, params), FALSE)

HeatCapacityP(P, T, V) ==
    Do(Call("heat_capacity_p", P, T, V), heat_capacity_p(P, T, V, params), FALSE)

AdiabaticBulkModulus(P, T, V) ==
    Do(Call("adiabatic_bulk_modulus", P, T, V),
       adiabatic_bulk_modulus(P, T, V, params), FALSE)

(* the volumes a caller passes to pressure: fixed ones, or the volume it   *)
(* has just computed                                                       *)
CallerVolumes ==
    Volumes \cup (IF call.op = "volume" /\ IsNum(result) THEN {result} ELSE {})

Init ==
    /\ params \in Records
    /\ call = Call("none", None, None, None)
    /\ result = None
    /\ warned = FALSE
    /\ first = NoCall

Next ==
    \/ TaitConstants
    \/ \E x \in Ratios : ModifiedTait(x)
    \/ \E pt \in StatePoints : Volume(pt[1], pt[2])
    \/ \E pt \in StatePoints, V \in Volumes : IsothermalBulkModulus(pt[1], pt[2], V)
    \/ \E pt \in StatePoints, V \in Volumes : ThermalExpansivity(pt[1], pt[2], V)
    \/ \E T \in Temperatures : HeatCapacityP0(T)
    \/ \E pt \in StatePoints : Gibbs(pt[1], pt[2])
    \/ \E T \in Temperatures, V \in CallerVolumes : Pressure(T, V)
    \/ \E s \in StubArguments : GrueneisenParameter(s[1], s[2], s[3])
    \/ \E s \in StubArguments : ShearModulus(s[1], s[2], s[3])
    \/ \E s \in StubArguments : HeatCapacityV(s[1], s[2], s[3])
    \/ \E s \in StubArguments : HeatCapacityP(s[1], s[2], s[3])
    \/ \E s \in StubArguments : AdiabaticBulkModulus(s[1], s[2], s[3])

Spec == Init /\ [][Next]_vars

(* A caller that notes its first call and then repeats and interleaves    *)
(* calls at a few state points of three dictionaries                      *)
PurityRecords ==
    {Record(<<1, 1>>, <<2, 1>>, <<3, 1>>, <<1, 0, 0, -2623>>, FALSE),
     Record(<<1, 1>>, <<2, 1>>, <<3, 1>>, <<1, 0, 0, -2623>>, TRUE) @@ Landau(TRUE),
     Record(<<1, 1>>, <<2, 1>>, <<3, 1>>, <<1, 0, 0, -2623>>, FALSE) @@ BW(FALSE)}

PurityPoints == {<<F(1), T_0>>, <<F(1), Mul(F(2), T_0)>>}

PurityVolumes ==
    {F(2)} \cup (IF call.op = "volume" /\ IsNum(result) THEN {result} ELSE {})

InitPurity ==
    /\ params \in PurityRecords
    /\ call = Call("none", None, None, None)
    /\ result = None
    /\ warned = FALSE
    /\ first = NoCallYet

NextPurity ==
    \/ TaitConstants
    \/ ModifiedTait(Py(8, 5))
    \/ \E pt \in PurityPoints : Volume(pt[1], pt[2])
    \/ \E pt \in PurityPoints : IsothermalBulkModulus(pt[1], pt[2], F(2))
    \/ \E pt \in PurityPoints : ThermalExpansivity(pt[1], pt[2], F(2))
    \/ \E pt \in PurityPoints : HeatCapacityP0(pt[2])
    \/ \E pt \in PurityPoints : Gibbs(pt[1], pt[2])
    \/ \E pt \in PurityPoints, V \in PurityVolumes : Pressure(pt[2], V)
    \/ GrueneisenParameter(F(1), T_0, F(2))
    \/ ShearModulus(F(1), T_0, F(2))
    \/ HeatCapacityV(F(1), T_0, F(2))
    \/ HeatCapacityP(F(1), T_0, F(2))
    \/ AdiabaticBulkModulus(F(1), T_0, F(2))

SpecPurity == InitPurity /\ [][NextPurity]_vars

-----------------------------------------------------------------------------
(* Properties *)

StubOps ==
    {"grueneisen_parameter", "shear_modulus", "heat_capacity_v",
     "heat_capacity_p", "adiabatic_bulk_modulus"}

AbsVal(x) == IF Sign(x) < 0 THEN Neg(x) ELSE x

Tolerance == Py(1, 100)

(* x and y are finite and differ by no more than the tolerance *)
Close(x, y) ==
    /\ IsFinite(x)
    /\ IsFinite(y)
    /\ ~Gt(AbsVal(Sub(x, y)), Tolerance)

(* the stability domain of volume: 1 + b*(P - Pth) > 0 *)
InDomain(P, T, p) ==
    Gt(Add(F(1), Mul(tait_b(p), Sub(P, rel_thermal_pressure(T, p)))), F(0))

(* C1: for a well-formed dictionary and a state point (P, T) of the        *)
(* stability domain, pressure(T, volume(P, T, params), params) is P up to  *)
(* rounding: whenever the caller calls pressure at temperature T with the  *)
(* volume that volume(P, T, params) returns, the result is P.              *)
RoundTripPressure ==
    (call.op = "pressure" /\ params \in ValidRecords) =>
        \A pt \in StatePoints :
            (/\ pt[2] = call.T
             /\ InDomain(pt[1], pt[2], params)
             /\ Eq(volume(pt[1], pt[2], params), call.V))
            => Close(result, pt[1])

(* C2: gibbs treats P = 0 as a special case and returns a finite energy    *)
(* there: a gibbs call at zero pressure on a well-formed dictionary has a  *)
(* finite result.                                                          *)
GibbsZeroPressureFinite ==
    (call.op = "gibbs" /\ params \in ValidRecords /\ Eq(call.P, F(0)))
        => IsFinite(result)

(* C3: at the reference state, gibbs(0, T_0, params) is H_0.               *)
GibbsReferenceIsH0 ==
    (/\ call.op = "gibbs"
     /\ params \in ValidRecords
     /\ Eq(call.P, F(0))
     /\ call.T = T_0)
        => Eq(result, params["H_0"])

StubsReturnZero ==
    call.op \in StubOps => Eq(result, F(0))

StubCalledOnBadDictionary ==
    /\ call.op = "adiabatic_bulk_modulus"
    /\ params \notin ValidRecords
    /\ Eq(result, F(0))

HasLandau(p) == "landau_Tc" \in DOMAIN p

HasBW(p) == "BW_deltaH" \in DOMAIN p

(* the dictionary p without the keys ks *)
Without(p, ks) == [k \in DOMAIN p \ ks |-> p[k]]

(* C5: with BW_deltaH and no landau_Tc in a well-formed dictionary, gibbs  *)
(* prints the warning, does not fail, and returns what it returns for the  *)
(* same dictionary without BW_deltaH; with neither key it prints nothing.  *)
BraggWilliamsIsAStub ==
    (call.op = "gibbs" /\ params \in ValidRecords /\ ~HasLandau(params)) =>
        IF HasBW(params)
        THEN /\ warned
             /\ ~IsExc(result)
             /\ result = gibbs(call.P, call.T, Without(params, {"BW_deltaH"}))
        ELSE ~warned

BraggWilliamsWarned ==
    /\ call.op = "gibbs"
    /\ params \in ValidRecords
    /\ HasBW(params)
    /\ ~HasLandau(params)
    /\ warned
    /\ IsFinite(result)

(* (Tc* - T)/landau_Tc *)
LandauRatio(P, T, p) == Div(Sub(landau_Tcstar(P, p), T), p["landau_Tc"])

(* the order parameter the claim prescribes: 0 when Tc* - T <= 0, else the *)
(* positive fourth root of the ratio, which is rational at every state     *)
(* point                                                                   *)
FourthRoots == {Py(1, 2), F(1), F(2)}

UnclampedQ(P, T, p) ==
    LET r == LandauRatio(P, T, p)
    IN  IF Sign(r) <= 0 THEN F(0)
        ELSE CHOOSE q \in FourthRoots : Eq(IPow(q, 4), r)

(* the Landau term as a function of the order parameter Q *)
LandauTerm(P, T, p, Q) ==
    LET Tc == p["landau_Tc"]
        Smax == p["landau_Smax"]
        Q_0 == landau_Q_0(p)
    IN  Add(Sub(Sub(Mul(Mul(Tc, Smax), Sub(IPow(Q_0, 2), Div(IPow(Q_0, 6), F(3)))),
                    Mul(Smax, Sub(Mul(landau_Tcstar(P, p), IPow(Q, 2)),
                                  Div(Mul(Tc, IPow(Q, 6)), F(3))))),
                Mul(T, Mul(Smax, Sub(IPow(Q_0, 2), IPow(Q, 2))))),
            Mul(P, Mul(p["landau_Vmax"], IPow(Q_0, 2))))

(* C6: in gibbs on a well-formed dictionary with Landau fields, Q is 0     *)
(* when Tc* - T <= 0 and the fourth root of (Tc* - T)/landau_Tc when       *)
(* Tc* > T, exceeds 1 exactly when Tc* - T > landau_Tc, and the energy     *)
(* returned differs from that of the dictionary without the Landau fields  *)
(* by the Landau term at that unclamped Q.                                 *)
LandauOrderParameterUnclamped ==
    (call.op = "gibbs" /\ params \in ValidRecords /\ HasLandau(params)) =>
        LET Q == landau_Q(call.P, call.T, params)
            r == LandauRatio(call.P, call.T, params)
        IN  /\ Sign(r) <= 0 => Q = F(0)
            /\ Sign(r) > 0 => (Sign(Q) > 0 /\ Eq(IPow(Q, 4), r))
            /\ Gt(Q, F(1)) <=> Gt(r, F(1))
            /\ IsFinite(result) =>
                   Eq(Sub(result,
                          gibbs(call.P, call.T,
                                Without(params, {"landau_Tc", "landau_Smax",
                                                 "landau_Vmax"}))),
                      LandauTerm(call.P, call.T, params,
                                 UnclampedQ(call.P, call.T, params)))

LandauOverOrdered ==
    /\ call.op = "gibbs"
    /\ params \in ValidRecords
    /\ HasLandau(params)
    /\ IsFinite(result)
    /\ Gt(landau_Q(call.P, call.T, params), F(1))

Degenerate(p) == "Kprime_0" \in DOMAIN p /\ Eq(p["Kprime_0"], F(-1))

ExpansivityTimesBulkModulus ==
    (/\ call.op = "thermal_expansivity"
     /\ params \in ValidRecords
     /\ InDomain(call.P, call.T, params))
        => \A V \in Volumes :
               LET ein == einst(params["S_0"], params["n"])
               IN  Eq(Mul(result,
                          isothermal_bulk_modulus(call.P, call.T, V, params)),
                      Div(Mul(Mul(params["a_0"], params["K_0"]),
                              ksi(Div(ein, call.T))),
                          ksi(Div(ein, T_0))))

ExpansivityUnderPressure ==
    /\ call.op = "thermal_expansivity"
    /\ params \in ValidRecords
    /\ InDomain(call.P, call.T, params)
    /\ Gt(call.P, F(0))
    /\ Gt(call.T, T_0)
    /\ IsFinite(result)

====
